---------------------------- MODULE Spec2Model ----------------------------
(***************************************************************************)
(* Model of src/src/linear-algebra.ts: the class Z (the ring Z_n over a    *)
(* list of integer representatives, with its cached operation tables and   *)
(* inverse lookups), the Field bundle it exposes and the chainable FVar,   *)
(* plus the script line of src/src/descrete-math.ts that chains them.      *)
(*                                                                         *)
(* JavaScript arrays are functions over 0..length-1, so every index of     *)
(* the model is the index of the source.  JavaScript values are tagged     *)
(* records: a number, undefined or NaN.                                    *)
(***************************************************************************)
EXTENDS Integers, FiniteSets, Sequences, TLC

(* ------------------------------- bounds -------------------------------- *)

\* createFromN(n) is called with n in 1..MaxN
MaxN == 5

\* the integers a caller puts in a ring lie in -MaxNeg..MaxPos:
\* createFromRange(from, to) with -MaxNeg <= from <= to <= MaxPos, and
\* new Z(arr) with arr of 1..MaxLen distinct such integers in any order
MaxNeg == 1
MaxPos == 3
MaxLen == 2

Elems == (0 - MaxNeg)..MaxPos

(* -------------------------- JavaScript values -------------------------- *)

Num(k) == [tag |-> "number", val |-> k]

Undefined == [tag |-> "undefined", val |-> 0]

NaN == [tag |-> "NaN", val |-> 0]

IsNumber(x) == x.tag = "number"

\* `!x`: undefined, NaN and 0 are falsy
Falsy(x) == x.tag # "number" \/ x.val = 0

\* `x == null`
IsNullish(x) == x.tag = "undefined"

\* a % b on integers, b > 0: the remainder takes the sign of the dividend
\* (-0 is 0 here: ===, includes and indexOf do not tell them apart)
JsRem(a, b) == IF a >= 0 THEN a % b ELSE -((-a) % b)

(* ------------------------------- arrays -------------------------------- *)

Length(arr) == Cardinality(DOMAIN arr)

Includes(arr, x) == \E i \in DOMAIN arr : arr[i] = x

\* the first index holding x (called only when Includes(arr, x))
IndexOf(arr, x) ==
    CHOOSE i \in DOMAIN arr : arr[i] = x /\ \A k \in DOMAIN arr : arr[k] = x => i <= k

\* row.findIndex(cell => cell === x): the first such index, or -1
FindIndex(row, x) ==
    IF \E i \in DOMAIN row : row[i] = x
    THEN CHOOSE i \in DOMAIN row : row[i] = x /\ \A k \in DOMAIN row : row[k] = x => i <= k
    ELSE -1

\* arr.sort((a, b) => a - b): ascending and stable
SortAscending(arr) ==
    LET rank(p) == Cardinality({q \in DOMAIN arr : arr[q] < arr[p]})
                   + Cardinality({q \in DOMAIN arr : arr[q] = arr[p] /\ q < p})
    IN  [k \in DOMAIN arr |-> arr[CHOOSE p \in DOMAIN arr : rank(p) = k]]

fillArray(size, value) == [k \in 0..(size - 1) |-> value]

createIncreasingArray(from, to) == [k \in 0..(to - from) |-> from + k]

(* ------------------------- Z: static arithmetic ------------------------ *)

\* static sum = (n, a, b) => (a + b) % n; anything but two numbers gives NaN
Z_sum(len, a, b) ==
    IF IsNumber(a) /\ IsNumber(b) THEN Num(JsRem(a.val + b.val, len)) ELSE NaN

\* static multiply = (n, a, b) => (a * b) % n
Z_multiply(len, a, b) ==
    IF IsNumber(a) /\ IsNumber(b) THEN Num(JsRem(a.val * b.val, len)) ELSE NaN

(* --------------------------- Z: construction --------------------------- *)

\* assignCells with the mirror cell forgotten: matrix[i][j] = v
assignCells_oneSide(matrix, i, j, v) == [matrix EXCEPT ![i][j] = v]

\* matrix[i][j] = matrix[j][i] = v
assignCells(matrix, i, j, v) == [matrix EXCEPT ![j][i] = v, ![i][j] = v]

\* the (i, j) the double loop of operationTable visits, in its order:
\* for i from `from` to len-1, for j from i to len-1
RECURSIVE LoopPairs(_, _)
LoopPairs(from, len) ==
    IF from >= len
    THEN <<>>
    ELSE [k \in 1..(len - from) |-> <<from, from + k - 1>>] \o LoopPairs(from + 1, len)

\* static operationTable(variables, operation): it throws for an empty array
\* (lines 107-111; the arrays of the model are arrays) and for a missing
\* operation (lines 113-115).  Otherwise the matrix starts as len rows of len
\* zeros, `variables` is sorted in place (line 123) and every visited cell
\* gets operation(i, j), applied to the loop indices.  `operation` is a
\* function value, as in the source.  The outcome names what is returned
\* and what the array given holds afterwards.
operationTable(vars, operation) ==
    IF Length(vars) = 0
    THEN [status |-> "error", matrix |-> <<>>, variables |-> vars]
    ELSE IF operation = Undefined
    THEN [status |-> "error", matrix |-> <<>>, variables |-> vars]
    ELSE LET len == Length(vars)
             pairs == LoopPairs(0, len)
             run[p \in 0..Len(pairs)] ==
                 IF p = 0
                 THEN fillArray(len, fillArray(len, Num(0)))
                 ELSE assignCells(run[p - 1], pairs[p][1], pairs[p][2],
                                  operation[Num(pairs[p][1]), Num(pairs[p][2])])
         IN  [status |-> "ok", matrix |-> run[Len(pairs)], variables |-> SortAscending(vars)]

\* the numbers this.sum and this.multiply are given while a ring of these
\* representatives is built: indices and representatives
Operands(arr) ==
    {Num(k) : k \in DOMAIN arr} \cup {Num(arr[k]) : k \in DOMAIN arr}

\* the constructor sorting and keeping a copy of its argument:
\* this._variables = [...variables], the argument left as it was given
Z_new_copiesArgument(arr) ==
    LET sorted == SortAscending(arr)
        len == Length(sorted)
        thisSum == [a \in Operands(sorted), b \in Operands(sorted) |-> Z_sum(len, a, b)]
        thisMultiply == [a \in Operands(sorted), b \in Operands(sorted) |-> Z_multiply(len, a, b)]
        addition == operationTable(sorted, thisSum)
        multiplication == operationTable(addition.variables, thisMultiply)
    IN  [variables |-> multiplication.variables,
         n |-> len,
         table |-> [addition |-> addition.matrix, multiply |-> multiplication.matrix],
         argument |-> [same |-> FALSE, array |-> arr]]

\* constructor(variables): this._variables is the caller's array itself
\* (line 53), sorted in place (line 56, and again by each operationTable
\* call, line 123), _n is its length and both tables are built with the
\* instance's sum and multiply.
Z_new(arr) ==
    LET sorted == SortAscending(arr)
        len == Length(sorted)
        thisSum == [a \in Operands(sorted), b \in Operands(sorted) |-> Z_sum(len, a, b)]
        thisMultiply == [a \in Operands(sorted), b \in Operands(sorted) |-> Z_multiply(len, a, b)]
        addition == operationTable(sorted, thisSum)
        multiplication == operationTable(addition.variables, thisMultiply)
    IN  [variables |-> multiplication.variables,
         n |-> len,
         table |-> [addition |-> addition.matrix, multiply |-> multiplication.matrix],
         argument |-> [same |-> TRUE, array |-> <<>>]]

createFromRange(from, to) == Z_new(createIncreasingArray(from, to))

createFromN(k) == Z_new(createIncreasingArray(0, k - 1))

\* the arrays a caller passes to `new Z(...)`: distinct integers, any order
InputArrays ==
    UNION {{arr \in [0..(len - 1) -> Elems] :
                \A p, q \in 0..(len - 1) : arr[p] = arr[q] => p = q} : len \in 1..MaxLen}

(* -------------------------------- state -------------------------------- *)

VARIABLES
    variables,    \* Z._variables
    n,            \* Z._n
    table,        \* Z._table: [addition, multiply]
    value,        \* FVar._value of the element in use, NoFVar before getFVar
    result,       \* the last call: its name, argument, outcome and return value
    ctor,         \* which constructor built the ring
    repArgsOnly,  \* every argument the element was given is a representative
    held,         \* the matrix the caller got from the last table read
    built,        \* the tables and the lookups as they were when the constructor returned
    chain,        \* the arguments the script of descrete-math.ts has passed so far
    twin,         \* the element clone() returned: which object it is, its _value and _field
    using,        \* the handle the caller calls methods on: "original" or "clone"
    argument      \* the array given to the constructor: whether it is this._variables,
                  \* and its contents when it is an array of its own

vars ==
    <<variables, n, table, value, result, ctor, repArgsOnly, held, built, chain,
      twin, using, argument>>

NoFVar == [tag |-> "none", val |-> 0]

Call(op, arg, status, ret) == [op |-> op, arg |-> arg, status |-> status, ret |-> ret]

(* ----------------------------- Z: instance ----------------------------- *)

\* what a call does: it returns a value or it throws
Return(v) == [status |-> "ok", ret |-> v]

Throw == [status |-> "error", ret |-> Undefined]

\* sum = (a, b) => Z.sum(this._n, a, b)
sum(a, b) == Z_sum(n, a, b)

\* multiply = (a, b) => Z.multiply(this._n, a, b)
multiply(a, b) == Z_multiply(n, a, b)

\* this._variables.includes(variable)
IsRepresentative(x) == IsNumber(x) /\ Includes(variables, x.val)

\* findInverseVariable scanning the addition table's row
findInverseVariable_scansAddition(variable) ==
    IF Falsy(variable) \/ variable = Num(0)
    THEN Throw
    ELSE IF ~IsRepresentative(variable)
    THEN Throw
    ELSE LET varIndex == IndexOf(variables, variable.val)
             inverseVarIndex == FindIndex(table.addition[varIndex], Num(1))
         IN  Return(IF inverseVarIndex = -1
                    THEN Undefined
                    ELSE Num(variables[inverseVarIndex]))

\* findInverseVariable with the guard of findAdditiveInverseVariable, which
\* lets 0 through
findInverseVariable_acceptsZero(variable) ==
    IF Falsy(variable) /\ variable # Num(0)
    THEN Throw
    ELSE IF ~IsRepresentative(variable)
    THEN Throw
    ELSE LET varIndex == IndexOf(variables, variable.val)
             inverseVarIndex == FindIndex(table.multiply[varIndex], Num(1))
         IN  Return(IF inverseVarIndex = -1
                    THEN Undefined
                    ELSE Num(variables[inverseVarIndex]))

findInverseVariable(variable) ==
    IF Falsy(variable) \/ variable = Num(0)
    THEN Throw
    ELSE IF ~IsRepresentative(variable)
    THEN Throw
    ELSE LET varIndex == IndexOf(variables, variable.val)
             inverseVarIndex == FindIndex(table.multiply[varIndex], Num(1))
         IN  Return(IF inverseVarIndex = -1
                    THEN Undefined
                    ELSE Num(variables[inverseVarIndex]))

findAdditiveInverseVariable(variable) ==
    IF Falsy(variable) /\ variable # Num(0)
    THEN Throw
    ELSE IF ~IsRepresentative(variable)
    THEN Throw
    ELSE LET varIndex == IndexOf(variables, variable.val)
             additiveInverseVarIndex == FindIndex(table.addition[varIndex], Num(0))
         IN  Return(IF additiveInverseVarIndex = -1
                    THEN Undefined
                    ELSE Num(variables[additiveInverseVarIndex]))

(* -------------------------------- Field -------------------------------- *)

f0 == 0

f1 == 1

(* -------------------------------- FVar --------------------------------- *)

\* what a method of the element does: it returns `this` with _value set, or
\* it throws with _value as it stands at the throw
Returns(v) == [status |-> "ok", value |-> v]

Throws(v) == [status |-> "error", value |-> v]

\* constructor(initialValue, field), as getFVar calls it: the field is there
FVar_new(initialValue) ==
    IF IsNullish(initialValue) THEN Throws(value) ELSE Returns(initialValue)

FVar_setValueToF0 == Returns(Num(f0))

FVar_setValueToF1 == Returns(Num(f1))

FVar_sum(addition) ==
    IF Falsy(addition) /\ addition # Num(0)
    THEN Throws(value)
    ELSE Returns(sum(value, addition))

\* subtract adding the subtrahend itself, not its additive inverse
FVar_subtract_addsSubtrahend(subtrahend) ==
    IF Falsy(subtrahend) /\ subtrahend # Num(0)
    THEN Throws(value)
    ELSE IF findAdditiveInverseVariable(subtrahend).status = "error"
    THEN Throws(value)
    ELSE Returns(sum(value, subtrahend))

FVar_subtract(subtrahend) ==
    IF Falsy(subtrahend) /\ subtrahend # Num(0)
    THEN Throws(value)
    ELSE LET inverse == findAdditiveInverseVariable(subtrahend)
         IN  IF inverse.status = "error"
             THEN Throws(value)
             ELSE Returns(sum(value, inverse.ret))

FVar_multiply(multiplier) ==
    IF Falsy(multiplier) /\ multiplier # Num(0)
    THEN Throws(value)
    ELSE Returns(multiply(value, multiplier))

\* divide checking its divisor only after it has assigned _value
FVar_divide_assignsBeforeCheck(divisor) ==
    LET inverse == findInverseVariable(divisor)
        assigned == multiply(value, inverse.ret)
    IN  IF (Falsy(divisor) /\ divisor # Num(0)) \/ divisor = Num(f0)
               \/ inverse.status = "error"
        THEN Throws(assigned)
        ELSE Returns(assigned)

FVar_divide(divisor) ==
    IF (Falsy(divisor) /\ divisor # Num(0)) \/ divisor = Num(f0)
    THEN Throws(value)
    ELSE LET inverse == findInverseVariable(divisor)
         IN  IF inverse.status = "error"
             THEN Throws(value)
             ELSE Returns(multiply(value, inverse.ret))

(* ------------------------------- actions ------------------------------- *)

\* the arguments a caller passes: every representative, the integers one
\* below the lowest and one above the highest, 0, and a missing argument
ArgValues ==
    LET reps == {variables[i] : i \in DOMAIN variables}
        lowest == CHOOSE r \in reps : \A o \in reps : r <= o
        highest == CHOOSE r \in reps : \A o \in reps : o <= r
    IN  {Num(k) : k \in reps \cup {lowest - 1, highest + 1, 0}} \cup {Undefined}

\* no clone() yet
NoTwin == [object |-> "none", value |-> NoFVar, field |-> "none"]

\* the state when a constructor has returned the ring z
Built(name, z) ==
    /\ variables = z.variables
    /\ n = z.n
    /\ table = z.table
    /\ value = NoFVar
    /\ result = Call(name, Undefined, "ok", Undefined)
    /\ ctor = name
    /\ repArgsOnly = TRUE
    /\ held = "none"
    /\ built = [table |-> table,
                inverse |-> [x \in ArgValues |-> findInverseVariable(x)],
                additiveInverse |-> [x \in ArgValues |-> findAdditiveInverseVariable(x)]]
    /\ chain = <<>>
    /\ twin = NoTwin
    /\ using = "original"
    /\ argument = z.argument

Init ==
    \/ \E k \in 1..MaxN : Built("createFromN", createFromN(k))
    \/ \E from \in Elems : \E to \in Elems :
            from <= to /\ Built("createFromRange", createFromRange(from, to))
    \/ \E arr \in InputArrays : Built("new", Z_new(arr))

\* a lookup on the ring: nothing is assigned
Lookup(op, x, out) ==
    /\ result' = Call(op, x, out.status, out.ret)
    /\ UNCHANGED <<variables, n, table, value, ctor, repArgsOnly, held, built, chain, twin, using, argument>>

FindInverseVariable(x) == Lookup("findInverseVariable", x, findInverseVariable(x))

FindAdditiveInverseVariable(x) ==
    Lookup("findAdditiveInverseVariable", x, findAdditiveInverseVariable(x))

\* a method of the element in use
Method(op, x, out) ==
    /\ value # NoFVar
    /\ value' = out.value
    /\ result' = Call(op, x, out.status, IF out.status = "ok" THEN out.value ELSE Undefined)
    /\ repArgsOnly' = (repArgsOnly /\ (out.status = "ok" => IsRepresentative(x)))
    /\ UNCHANGED <<variables, n, table, ctor, held, built>>

\* getFVar(initialValue): a new element replaces the one in use
NewFVar(x, out) ==
    /\ value' = out.value
    /\ result' = Call("getFVar", x, out.status, IF out.status = "ok" THEN out.value ELSE Undefined)
    /\ repArgsOnly' = IF out.status = "ok" THEN IsRepresentative(x) ELSE repArgsOnly
    /\ UNCHANGED <<variables, n, table, ctor, held, built>>

GetFVar(x) == NewFVar(x, FVar_new(x)) /\ UNCHANGED <<chain, twin, using, argument>>

SetValueToF0 ==
    /\ value # NoFVar
    /\ value' = FVar_setValueToF0.value
    /\ result' = Call("setValueToF0", Undefined, "ok", FVar_setValueToF0.value)
    /\ UNCHANGED <<variables, n, table, ctor, repArgsOnly, held, built, chain, twin, using, argument>>

SetValueToF1 ==
    /\ value # NoFVar
    /\ value' = FVar_setValueToF1.value
    /\ result' = Call("setValueToF1", Undefined, "ok", FVar_setValueToF1.value)
    /\ UNCHANGED <<variables, n, table, ctor, repArgsOnly, held, built, chain, twin, using, argument>>

Sum(x) == Method("sum", x, FVar_sum(x)) /\ UNCHANGED <<chain, twin, using, argument>>

Subtract(x) == Method("subtract", x, FVar_subtract(x)) /\ UNCHANGED <<chain, twin, using, argument>>

Multiply(x) == Method("multiply", x, FVar_multiply(x)) /\ UNCHANGED <<chain, twin, using, argument>>

Divide(x) == Method("divide", x, FVar_divide(x)) /\ UNCHANGED <<chain, twin, using, argument>>

(* ----------------------------- table reads ----------------------------- *)

\* cloneDeep handing back the matrix it was given
cloneDeep_sameMatrix(matrix) == matrix

\* cloneDeep(matrix): a new matrix, rows included, equal to the one given.
\* A matrix is named by where it lives: "addition" and "multiply" are the two
\* of this._table, "clone" is one only the caller holds.
cloneDeep(matrix) == "clone"

\* getAdditionTable(false): the caller gets a clone, whose cells are those of
\* the cached table at this moment
GetAdditionTable ==
    /\ held' = cloneDeep("addition")
    /\ result' = Call("getAdditionTable", Undefined, "ok", table.addition)
    /\ UNCHANGED <<variables, n, table, value, ctor, repArgsOnly, built, chain, twin, using, argument>>

\* getMultiplyTable(false)
GetMultiplyTable ==
    /\ held' = cloneDeep("multiply")
    /\ result' = Call("getMultiplyTable", Undefined, "ok", table.multiply)
    /\ UNCHANGED <<variables, n, table, value, ctor, repArgsOnly, built, chain, twin, using, argument>>

\* the caller writes v into cell (i, j) of the matrix it holds: a matrix of
\* its own is no state of the ring, a matrix of this._table is
CallerWrites(i, j, v) ==
    /\ held # "none"
    /\ table' = IF held = "clone" THEN table ELSE [table EXCEPT ![held][i][j] = v]
    /\ result' = Call("write", v, "ok", Undefined)
    /\ UNCHANGED <<variables, n, value, ctor, repArgsOnly, held, built, chain, twin, using, argument>>

Next ==
    \/ \E x \in ArgValues : FindInverseVariable(x)
    \/ \E x \in ArgValues : FindAdditiveInverseVariable(x)
    \/ \E x \in ArgValues : GetFVar(x)
    \/ SetValueToF0
    \/ SetValueToF1
    \/ \E x \in ArgValues : Sum(x)
    \/ \E x \in ArgValues : Subtract(x)
    \/ \E x \in ArgValues : Multiply(x)
    \/ \E x \in ArgValues : Divide(x)
    \/ GetAdditionTable
    \/ GetMultiplyTable
    \/ \E i \in 0..(n - 1) : \E j \in 0..(n - 1) : \E v \in {Num(f0), Num(f1)} :
            CallerWrites(i, j, v)

Spec == Init /\ [][Next]_vars

(* ------------------- the script of descrete-math.ts -------------------- *)

\* Z.createFromN(5).getFVar(2).divide(3).subtract(1).value, for any ring and
\* any three arguments: `chain` holds the arguments passed so far, and a call
\* that throws ends the script
ScriptGetFVar(x) ==
    /\ chain = <<>>
    /\ NewFVar(x, FVar_new(x))
    /\ chain' = <<x>>
    /\ UNCHANGED <<twin, using, argument>>

ScriptDivide(x) ==
    /\ Len(chain) = 1
    /\ result.status = "ok"
    /\ Method("divide", x, FVar_divide(x))
    /\ chain' = Append(chain, x)
    /\ UNCHANGED <<twin, using, argument>>

ScriptSubtract(x) ==
    /\ Len(chain) = 2
    /\ result.status = "ok"
    /\ Method("subtract", x, FVar_subtract(x))
    /\ chain' = Append(chain, x)
    /\ UNCHANGED <<twin, using, argument>>

ScriptNext ==
    \/ \E x \in ArgValues : ScriptGetFVar(x)
    \/ \E x \in ArgValues : ScriptDivide(x)
    \/ \E x \in ArgValues : ScriptSubtract(x)

ScriptSpec == Init /\ [][ScriptNext]_vars

(* ------------------------------- clone --------------------------------- *)

\* clone() handing back the element it was called on
FVar_clone_returnsThis == [object |-> "this", value |-> value, field |-> "this._field"]

\* clone(): new FVar(this._value, this._field).  An element is named by the
\* object it is: "new" is an element of its own, "this" the one cloned.
\* (FVar's constructor accepts every _value an element can hold: none is
\* null or undefined.)
FVar_clone == [object |-> "new", value |-> value, field |-> "this._field"]

\* with two handles on one object, what a method assigns through one handle
\* is what the other reads
TwinFollows == twin' = IF twin.object = "this" THEN [twin EXCEPT !.value = value'] ELSE twin

\* getFVar, before any clone().  (With two elements, repArgsOnly speaks of
\* the arguments given to either.)
FirstFVar(x) ==
    /\ twin.object = "none"
    /\ NewFVar(x, FVar_new(x))
    /\ UNCHANGED <<chain, twin, using, argument>>

Clone ==
    /\ value # NoFVar
    /\ twin.object = "none"
    /\ twin' = FVar_clone
    /\ result' = Call("clone", Undefined, "ok", FVar_clone.value)
    /\ UNCHANGED <<variables, n, table, value, ctor, repArgsOnly, held, built, chain,
                   using, argument>>

\* the caller turns to its other handle: `value` is the _value of the element
\* in use, twin.value that of the other
Switch ==
    /\ twin.object # "none"
    /\ using' = IF using = "original" THEN "clone" ELSE "original"
    /\ value' = twin.value
    /\ twin' = [twin EXCEPT !.value = value]
    /\ UNCHANGED <<variables, n, table, result, ctor, repArgsOnly, held, built, chain,
                   argument>>

TwinSetValueToF0 ==
    /\ value # NoFVar
    /\ value' = FVar_setValueToF0.value
    /\ result' = Call("setValueToF0", Undefined, "ok", FVar_setValueToF0.value)
    /\ TwinFollows
    /\ UNCHANGED <<variables, n, table, ctor, repArgsOnly, held, built, chain, using,
                   argument>>

TwinSetValueToF1 ==
    /\ value # NoFVar
    /\ value' = FVar_setValueToF1.value
    /\ result' = Call("setValueToF1", Undefined, "ok", FVar_setValueToF1.value)
    /\ TwinFollows
    /\ UNCHANGED <<variables, n, table, ctor, repArgsOnly, held, built, chain, using,
                   argument>>

TwinSum(x) ==
    Method("sum", x, FVar_sum(x)) /\ TwinFollows /\ UNCHANGED <<chain, using, argument>>

TwinSubtract(x) ==
    Method("subtract", x, FVar_subtract(x)) /\ TwinFollows
        /\ UNCHANGED <<chain, using, argument>>

TwinMultiply(x) ==
    Method("multiply", x, FVar_multiply(x)) /\ TwinFollows
        /\ UNCHANGED <<chain, using, argument>>

TwinDivide(x) ==
    Method("divide", x, FVar_divide(x)) /\ TwinFollows
        /\ UNCHANGED <<chain, using, argument>>

CloneNext ==
    \/ \E x \in ArgValues : FirstFVar(x)
    \/ Clone
    \/ Switch
    \/ TwinSetValueToF0
    \/ TwinSetValueToF1
    \/ \E x \in ArgValues : TwinSum(x)
    \/ \E x \in ArgValues : TwinSubtract(x)
    \/ \E x \in ArgValues : TwinMultiply(x)
    \/ \E x \in ArgValues : TwinDivide(x)

\* the rings of createFromN: prime and composite sizes, so that the two
\* elements take every kind of value (representatives, other numbers, NaN)
CloneInit == \E k \in 1..MaxN : Built("createFromN", createFromN(k))

CloneSpec == CloneInit /\ [][CloneNext]_vars

(* ------------------------- the caller's array -------------------------- *)

\* the array the caller gave `new Z(arr)`, as the caller reads it
CallerArray == IF argument.same THEN variables ELSE argument.array

\* the integers the caller writes: none is a representative of any ring here
WrittenValues == {(0 - MaxNeg) - 1, MaxPos + 1}

\* arr[i] = v by the caller, after `new Z(arr)`: the write lands in
\* this._variables when arr is that array.  (createFromN and createFromRange
\* build the array themselves and hand out no reference to it.)
CallerSets(i, v) ==
    /\ ctor = "new"
    /\ IF argument.same
       THEN variables' = [variables EXCEPT ![i] = v] /\ UNCHANGED argument
       ELSE argument' = [argument EXCEPT !.array[i] = v] /\ UNCHANGED variables
    /\ result' = Call("set", Num(v), "ok", Undefined)
    /\ UNCHANGED <<n, table, value, ctor, repArgsOnly, held, built, chain, twin, using>>

\* this.sum and this.multiply, as the caller hands them to Z.operationTable
thisSum == [a \in Operands(CallerArray), b \in Operands(CallerArray) |-> sum(a, b)]

thisMultiply == [a \in Operands(CallerArray), b \in Operands(CallerArray) |-> multiply(a, b)]

\* the public Z.operationTable(vars, operation), called by the caller of
\* `new Z(arr)` on arr or on an empty array: a call that does not throw
\* leaves arr sorted, and arr is this._variables
OperationTable(given, operation) ==
    /\ ctor = "new"
    /\ LET out == operationTable(IF given = "arr" THEN CallerArray ELSE <<>>, operation)
           arr == IF given = "arr" THEN out.variables ELSE CallerArray
       IN  /\ IF argument.same
              THEN variables' = arr /\ UNCHANGED argument
              ELSE argument' = [argument EXCEPT !.array = arr] /\ UNCHANGED variables
           /\ result' = Call("operationTable", Undefined, out.status, Undefined)
    /\ UNCHANGED <<n, table, value, ctor, repArgsOnly, held, built, chain, twin, using>>

\* `new Z(arr)` once more on the same array: the second ring sorts arr in
\* place, and arr is the first ring's this._variables.  The state is that
\* of the first ring.
ConstructAgain ==
    /\ ctor = "new"
    /\ LET second == Z_new(CallerArray)
           arr == IF second.argument.same THEN second.variables ELSE CallerArray
       IN  IF argument.same
           THEN variables' = arr /\ UNCHANGED argument
           ELSE argument' = [argument EXCEPT !.array = arr] /\ UNCHANGED variables
    /\ result' = Call("new", Undefined, "ok", Undefined)
    /\ UNCHANGED <<n, table, value, ctor, repArgsOnly, held, built, chain, twin, using>>

ArrayNext ==
    \/ \E x \in ArgValues \cup {Num(v) : v \in WrittenValues} : FindInverseVariable(x)
    \/ \E x \in ArgValues \cup {Num(v) : v \in WrittenValues} : FindAdditiveInverseVariable(x)
    \/ \E i \in 0..(n - 1) : \E v \in WrittenValues : CallerSets(i, v)
    \/ \E given \in {"arr", "empty"} : OperationTable(given, thisSum)
    \/ \E given \in {"arr", "empty"} : OperationTable(given, thisMultiply)
    \/ \E given \in {"arr", "empty"} : OperationTable(given, Undefined)
    \/ ConstructAgain

ArrayInit == \E arr \in InputArrays : Built("new", Z_new(arr))

ArraySpec == ArrayInit /\ [][ArrayNext]_vars

(* ------------------------- arithmetic of Z_n --------------------------- *)

RECURSIVE GCD(_, _)
GCD(a, b) == IF b = 0 THEN a ELSE GCD(b, a % b)

IsPrime(p) == p > 1 /\ \A d \in 2..(p - 1) : p % d # 0

\* the y of 1..m-1 with x * y = 1 in Z_m, for x coprime with m
InverseModulo(x, m) == CHOOSE y \in 1..(m - 1) : (x * y) % m = 1

(* ------------------------------- claims -------------------------------- *)

\* C1: in a ring built by createFromN(n), for every representative x of
\* 0..n-1, findAdditiveInverseVariable(x) returns (n - x) mod n, and for
\* x # 0 findInverseVariable(x) returns the inverse of x in Z_n when x is
\* coprime with n and undefined when it is not; for prime n it is defined.
C1_InverseLookupsMatchZn ==
    (ctor = "createFromN" /\ IsNumber(result.arg) /\ result.arg.val \in 0..(n - 1)) =>
        LET x == result.arg.val
        IN  /\ result.op = "findAdditiveInverseVariable" =>
                    /\ result.status = "ok"
                    /\ result.ret = Num((n - x) % n)
            /\ (result.op = "findInverseVariable" /\ x # 0) =>
                    /\ result.status = "ok"
                    /\ result.ret = IF GCD(x, n) = 1
                                    THEN Num(InverseModulo(x, n))
                                    ELSE Undefined
                    /\ IsPrime(n) => IsNumber(result.ret)

\* findInverseVariable(2) on createFromN(4) has returned undefined
C1_Witness ==
    /\ ctor = "createFromN"
    /\ n = 4
    /\ result = Call("findInverseVariable", Num(2), "ok", Undefined)

\* C2: in every ring, findAdditiveInverseVariable(x) returns undefined or a
\* representative y with sum(x, y) = 0.
C2_AdditiveInverseSumsToZero ==
    (result.op = "findAdditiveInverseVariable" /\ result.status = "ok"
        /\ result.ret # Undefined) =>
            /\ IsRepresentative(result.ret)
            /\ sum(result.arg, result.ret) = Num(0)

\* C3: in every ring, for every nonzero representative x,
\* findInverseVariable(x) returns undefined or a representative y with
\* multiply(x, y) = 1.
C3_InverseMultipliesToOne ==
    (result.op = "findInverseVariable" /\ result.status = "ok"
        /\ result.ret # Undefined) =>
            /\ IsRepresentative(result.ret)
            /\ multiply(result.arg, result.ret) = Num(1)

\* C4: in every ring, additionTable[i][j] = (r[i] + r[j]) mod size and
\* multiplicationTable[i][j] = (r[i] * r[j]) mod size, r the representatives.
C4_TablesCombineRepresentatives ==
    \A i \in 0..(n - 1) : \A j \in 0..(n - 1) :
        /\ table.addition[i][j] = sum(Num(variables[i]), Num(variables[j]))
        /\ table.multiply[i][j] = multiply(Num(variables[i]), Num(variables[j]))

\* C5: the value of an element that getFVar made, after calls that returned
\* and whose arguments were all representatives, is a representative.
C5_ValueIsRepresentative ==
    (value # NoFVar /\ repArgsOnly) => IsRepresentative(value)

\* C6: on createFromN(p), p prime, getFVar(v).divide(x).subtract(y).value is
\* ((v * inv(x)) mod p + ((p - y) mod p)) mod p for representatives v, x, y
\* with x # 0; on createFromN(5) with 2, 3, 1 it is 3.
C6_DivideThenSubtract ==
    (/\ ctor = "createFromN"
     /\ IsPrime(n)
     /\ Len(chain) = 3
     /\ \A k \in 1..3 : IsRepresentative(chain[k])
     /\ chain[2] # Num(0)) =>
        LET v == chain[1].val
            x == chain[2].val
            y == chain[3].val
        IN  /\ result.status = "ok"
            /\ value = Num((((v * InverseModulo(x, n)) % n) + ((n - y) % n)) % n)
            /\ (n = 5 /\ v = 2 /\ x = 3 /\ y = 1) => value = Num(3)

\* the script has run on createFromN(5) with 2, 3 and 1
C6_Witness ==
    /\ ctor = "createFromN"
    /\ n = 5
    /\ chain = <<Num(2), Num(3), Num(1)>>
    /\ result.op = "subtract"
    /\ result.status = "ok"

\* C7: a call that throws leaves the element's value and the ring's
\* representatives, size and tables as they were.
C7_FailedCallChangesNothing ==
    [][result'.status = "error" =>
            /\ value' = value
            /\ variables' = variables
            /\ n' = n
            /\ table' = table]_vars

\* divide(f0) has thrown on an element
C7_Witness ==
    /\ result = Call("divide", Num(f0), "error", Undefined)
    /\ IsNumber(value)

\* C8: findInverseVariable(x) throws exactly when x is 0, missing or no
\* representative; findAdditiveInverseVariable(x) throws exactly when x is
\* missing or no representative, so it accepts a representative 0; a lookup
\* that returns was given a representative.
C8_LookupsRejectNonRepresentatives ==
    /\ result.op = "findInverseVariable" =>
            ((result.status = "error") <=>
                (result.arg = Num(0) \/ ~IsRepresentative(result.arg)))
    /\ result.op = "findAdditiveInverseVariable" =>
            ((result.status = "error") <=> ~IsRepresentative(result.arg))
    /\ result.op \in {"findInverseVariable", "findAdditiveInverseVariable"} =>
            /\ result.status = "ok" => IsRepresentative(result.arg)
            /\ result.status = "error" => result.ret = Undefined

\* findInverseVariable(0) has thrown in a ring that holds 0
C8_Witness ==
    /\ IsRepresentative(Num(0))
    /\ result = Call("findInverseVariable", Num(0), "error", Undefined)

\* C9: whatever reads, caller's writes into the matrices read, lookups and
\* element methods came before, the cached tables, what a table read returns
\* and what both lookups do are what they were when the constructor returned.
C9_TablesFixedAtConstruction ==
    /\ table = built.table
    /\ result.op = "getAdditionTable" => result.ret = built.table.addition
    /\ result.op = "getMultiplyTable" => result.ret = built.table.multiply
    /\ \A x \in ArgValues :
            /\ findInverseVariable(x) = built.inverse[x]
            /\ findAdditiveInverseVariable(x) = built.additiveInverse[x]

\* the caller has overwritten a cell of a matrix that a table read returned
C9_Witness ==
    /\ held # "none"
    /\ result.op = "write"

\* C10: both tables are square of side size and symmetric, and the loop of
\* operationTable visits every cell or its mirror.
C10_TablesSquareSymmetric ==
    /\ \A t \in {table.addition, table.multiply} :
            /\ DOMAIN t = 0..(n - 1)
            /\ \A i \in 0..(n - 1) : DOMAIN t[i] = 0..(n - 1)
            /\ \A i \in 0..(n - 1) : \A j \in 0..(n - 1) : t[i][j] = t[j][i]
    /\ LET pairs == LoopPairs(0, n)
           visited == {pairs[p] : p \in DOMAIN pairs}
       IN  \A i \in 0..(n - 1) : \A j \in 0..(n - 1) :
                <<i, j>> \in visited \/ <<j, i>> \in visited

\* a ring of three representatives, whose tables have cells off the diagonal
\* that are not the initial 0
C10_Witness ==
    /\ n = 3
    /\ table.addition[2][0] = Num(2)
    /\ table.multiply[2][1] = Num(2)

\* C11: clone() returns an element of its own with the value and the field
\* of the one cloned, and from then on no method called through one handle
\* changes the value of the other element.
C11_CloneIsIndependent ==
    /\ [](result.op = "clone" =>
            /\ twin.object = "new"
            /\ twin.value = value
            /\ twin.field = "this._field")
    /\ [][(twin.object # "none" /\ using' = using) => twin'.value = twin.value]_vars

\* a method called on the clone has given it a value that the original, a
\* number too, does not have
C11_Witness ==
    /\ twin.object = "new"
    /\ using = "clone"
    /\ result.op = "multiply"
    /\ result.status = "ok"
    /\ IsNumber(value)
    /\ IsNumber(twin.value)
    /\ value # twin.value

\* C12: the constructor keeps the caller's array: when `new Z(arr)` returns,
\* arr is sorted ascending and is the ring's representative list; whatever
\* the caller writes into arr afterwards, an inverse lookup that finds its
\* column returns what arr holds at that column at that moment (the row is
\* the position of the argument in arr), while the size and both cached
\* tables are those of construction.
C12_ConstructorKeepsCallersArray ==
    /\ argument.same
    /\ n = Length(built.table.addition)
    /\ table = built.table
    /\ result.op = "new" =>
            \A p, q \in DOMAIN CallerArray : p < q => CallerArray[p] <= CallerArray[q]
    /\ (result.op = "findInverseVariable" /\ result.status = "ok") =>
            LET row == IndexOf(CallerArray, result.arg.val)
                col == FindIndex(built.table.multiply[row], Num(1))
            IN  result.ret = IF col = -1 THEN Undefined ELSE Num(CallerArray[col])
    /\ (result.op = "findAdditiveInverseVariable" /\ result.status = "ok") =>
            LET row == IndexOf(CallerArray, result.arg.val)
                col == FindIndex(built.table.addition[row], Num(0))
            IN  result.ret = IF col = -1 THEN Undefined ELSE Num(CallerArray[col])

\* the caller has written a number above every representative into arr, and
\* a multiplicative inverse lookup has returned that number
C12_Witness ==
    /\ ctor = "new"
    /\ result.op = "findInverseVariable"
    /\ result.status = "ok"
    /\ result.ret = Num(MaxPos + 1)
    /\ \E i \in DOMAIN CallerArray : CallerArray[i] = MaxPos + 1

=============================================================================
